---------------------------- MODULE Spec2Model ----------------------------
(***************************************************************************)
(* A model of financial_summary.py: main() calls GetNvrFin(code, "Y") and  *)
(* GetNvrFin(code, "Q"); each GetNvrFin call first calls GetNvrEncparam    *)
(* (portal GET + two regex searches), then GETs the data endpoint, checks  *)
(* the body, parses the tables and keys the second one; main then selects  *)
(* the fixed metrics, prefixes the column labels, concatenates the two     *)
(* views and writes output/<code>.csv.                                     *)
(*                                                                         *)
(* Texts are sequences of atoms.  A portal page is a sequence over         *)
(* PageTok, where "KE" stands for the text  encparam: '  and "KI" for the  *)
(* text  id: '  (in any letter case: both patterns are compiled with       *)
(* re.IGNORECASE), "'" is a quote, "a" an alphanumeric character, "=" any  *)
(* other character that is neither a quote nor a newline, and "\n" a       *)
(* newline.  A response body is a sequence of chunks: whitespace           *)
(* characters, other text, and <table> elements carrying their content.    *)
(***************************************************************************)
EXTENDS Integers, Sequences, FiniteSets, TLC

VARIABLES
    pc,          \* position of the run in main / GetNvrFin / GetNvrEncparam
    argv,        \* sys.argv
    code,        \* main: code = sys.argv[1].strip()
    freq_typ,    \* argument of the GetNvrFin call in progress
    html,        \* GetNvrEncparam: resp.text of the portal page
    encparam,    \* GetNvrFin: first element of GetNvrEncparam's result
    encid,       \* GetNvrFin: second element of GetNvrEncparam's result
    raw_html,    \* GetNvrFin: resp.text of the data endpoint
    tables,      \* GetNvrFin: result of pd.read_html
    df_all,      \* main: result of GetNvrFin(code, "Y")
    df_qtr,      \* main: result of GetNvrFin(code, "Q")
    metrics,     \* main: the requested metric list
    df_all_sel,  \* main
    df_qtr_sel,  \* main
    df_merged,   \* main
    outfile,     \* content of output/<code>.csv
    outdir,      \* whether the directory output/ exists
    status,      \* exit status of the process; -1 while it runs
    diag,        \* the exception that ended the run, as the traceback shows it
    stdout,      \* what main printed
    net,         \* history: the HTTP GETs issued, in order
    parsed,      \* history: the bodies pd.read_html was invoked on
    writes       \* history: number of writes to output/<code>.csv

vars == <<pc, argv, code, freq_typ, html, encparam, encid, raw_html, tables,
          df_all, df_qtr, metrics, df_all_sel, df_qtr_sel, df_merged,
          outfile, outdir, status, diag, stdout, net, parsed, writes>>

-----------------------------------------------------------------------------
(* Bounds of the enumerated inputs *)

MaxPageLen == 6
MaxBodyLen == 4
MaxHdr == 2
MaxRows == 2
MaxCols == 1

-----------------------------------------------------------------------------
(* Generic helpers *)

Range(s) == {s[i] : i \in 1..Len(s)}

SeqsUpTo(S, n) == UNION {[1..k -> S] : k \in 0..n}

NoDup(s) == \A i, j \in 1..Len(s) : i # j => s[i] # s[j]

Remove(s, k) == SubSeq(s, 1, k - 1) \o SubSeq(s, k + 1, Len(s))

RECURSIVE Flatten(_)
Flatten(ss) == IF ss = <<>> THEN <<>> ELSE Head(ss) \o Flatten(Tail(ss))

Min(S) == CHOOSE x \in S : \A y \in S : x <= y

-----------------------------------------------------------------------------
(* str.strip() and the blank test of GetNvrFin *)

Whitespace == {" ", "\t", "\n"}

RECURSIVE LStrip(_)
LStrip(s) ==
    IF s # <<>> /\ Head(s) \in Whitespace THEN LStrip(Tail(s)) ELSE s

RECURSIVE RStrip(_)
RStrip(s) ==
    IF s # <<>> /\ s[Len(s)] \in Whitespace
    THEN RStrip(SubSeq(s, 1, Len(s) - 1))
    ELSE s

\* str.strip()
Strip(s) == RStrip(LStrip(s))

\* the text of a body: one character per chunk ("T" for a <table> element)
Text(raw) == [i \in 1..Len(raw) |-> raw[i].c]

\* variant: only `not raw_html`, without the strip() test
IsBlankNoStrip(raw) == Text(raw) = <<>>

\* not raw_html or raw_html.strip() == ""
IsBlank(raw) == Text(raw) = <<>> \/ Strip(Text(raw)) = <<>>

-----------------------------------------------------------------------------
(* The two patterns of GetNvrEncparam, over the atoms of a page *)

PageTok == {"KE", "KI", "'", "a", "=", "\n"}

ExpandTok(t) ==
    IF t = "KE" THEN <<"encparam: ", "'">>
    ELSE IF t = "KI" THEN <<"id: ", "'">>
    ELSE <<t>>

Expand(page) == Flatten([i \in 1..Len(page) |-> ExpandTok(page[i])])

\* '.' without re.DOTALL
Dot(ch) == ch # "\n"

\* [A-Za-z0-9]
AlNum(ch) == ch = "a"

\* variant: the group written (.*?), which may be empty
EncEndsMaybeEmpty(x, s) ==
    {e \in s..Len(x) : x[e] = "'" /\ \A j \in s..(e - 1) : Dot(x[j])}

\* positions e of a closing quote after one or more '.' starting at s
EncEnds(x, s) ==
    {e \in (s + 1)..Len(x) : x[e] = "'" /\ \A j \in s..(e - 1) : Dot(x[j])}

\* encparam: '(.+?)'   matched at position p
EncMatchAt(x, p) ==
    /\ p + 1 <= Len(x)
    /\ x[p] = "encparam: "
    /\ x[p + 1] = "'"
    /\ EncEnds(x, p + 2) # {}

\* id: '([A-Za-z0-9]+)' ?   matched at position p
IdEnds(x, s) ==
    {e \in (s + 1)..Len(x) : x[e] = "'" /\ \A j \in s..(e - 1) : AlNum(x[j])}

IdMatchAt(x, p) ==
    /\ p + 1 <= Len(x)
    /\ x[p] = "id: "
    /\ x[p + 1] = "'"
    /\ IdEnds(x, p + 2) # {}

NoMatch == [found |-> FALSE, start |-> 0, group |-> <<>>]

\* re_enc.search(html): the leftmost match; the lazy group ends at the first
\* quote that closes it
SearchEnc(x) ==
    LET ps == {p \in 1..Len(x) : EncMatchAt(x, p)}
    IN  IF ps = {} THEN NoMatch
        ELSE LET p == Min(ps)
                 e == Min(EncEnds(x, p + 2))
             IN  [found |-> TRUE, start |-> p, group |-> SubSeq(x, p + 2, e - 1)]

\* re_id.search(html)
SearchId(x) ==
    LET ps == {p \in 1..Len(x) : IdMatchAt(x, p)}
    IN  IF ps = {} THEN NoMatch
        ELSE LET p == Min(ps)
                 e == Min(IdEnds(x, p + 2))
             IN  [found |-> TRUE, start |-> p, group |-> SubSeq(x, p + 2, e - 1)]

-----------------------------------------------------------------------------
(* Tables.  A parsed table has a column header of one or two levels        *)
(* (outermost first) and rows of cells; a DataFrame keyed by metric name   *)
(* has column labels and rows [name, cells].                               *)

KeyCol == "MetricNameColumn"      \* the key column label of line 84

NaN == "NaN"

NoTable == [levels |-> <<>>, rows |-> <<>>]

NoDf == [columns |-> <<>>, rows |-> <<>>]

Chunk(ch) == [c |-> ch, t |-> NoTable]

TableChunk(tb) == [c |-> "T", t |-> tb]

\* pd.read_html(raw_html): the <table> elements of the body, in document
\* order (it raises when there is none, see ReadHtml)
TablesOf(raw) ==
    LET IsTable(ck) == ck.c = "T"
        ts == SelectSeq(raw, IsTable)
    IN  [i \in 1..Len(ts) |-> ts[i].t]

\* isinstance(fs.columns, pd.MultiIndex)
IsMultiIndex(levels) == Len(levels) >= 2

\* variant: droplevel(-1), keeping the outer labels
CollapseInnerDropped(levels) ==
    IF IsMultiIndex(levels) THEN SubSeq(levels, 1, Len(levels) - 1) ELSE levels

\* if isinstance(fs.columns, pd.MultiIndex): fs.columns = fs.columns.droplevel(0)
Collapse(levels) == IF IsMultiIndex(levels) THEN Tail(levels) ELSE levels

\* the flat labels of a one-level header
Labels(levels) == levels[1]

\* "MetricNameColumn" in fs.columns
HasKey(levels) == KeyCol \in Range(Labels(levels))

\* fs.set_index(KeyCol): the key column becomes the index, the others stay
SetIndex(cols, rows) ==
    LET k == CHOOSE i \in 1..Len(cols) : cols[i] = KeyCol
    IN  [columns |-> Remove(cols, k),
         rows    |-> [r \in 1..Len(rows) |->
                        [name |-> rows[r][k], cells |-> Remove(rows[r], k)]]]

IndexOf(df) == [i \in 1..Len(df.rows) |-> df.rows[i].name]

RECURSIVE Dedup(_)
Dedup(s) ==
    IF s = <<>> THEN <<>>
    ELSE LET rest == Dedup(SubSeq(s, 1, Len(s) - 1))
             x == s[Len(s)]
         IN  IF x \in Range(rest) THEN rest ELSE Append(rest, x)

\* df.index.intersection(metrics): the unique labels of the index that are
\* requested, in index order
Intersection(index, ms) ==
    LET Wanted(n) == n \in Range(ms)
    IN  SelectSeq(Dedup(index), Wanted)

\* df.loc[labels]: for each label in turn, the rows that carry it
Loc(df, labels) ==
    [columns |-> df.columns,
     rows    |-> Flatten([i \in 1..Len(labels) |->
                    LET Named(row) == row.name = labels[i]
                    IN  SelectSeq(df.rows, Named)])]

NaNRow(n, width) == [name |-> n, cells |-> [c \in 1..width |-> NaN]]

\* variant: the selected rows left in source order, missing metrics appended
ReindexSourceOrder(df, ms) ==
    [columns |-> df.columns,
     rows    |-> df.rows \o
                 LET Missing(n) == n \notin Range(IndexOf(df))
                     miss == SelectSeq(ms, Missing)
                 IN  [i \in 1..Len(miss) |-> NaNRow(miss[i], Len(df.columns))]]

\* df.reindex(metrics) on a frame with unique index labels: one row per
\* requested label, in the requested order, NaN cells where the label is absent
Reindex(df, ms) ==
    [columns |-> df.columns,
     rows    |-> [i \in 1..Len(ms) |->
                    IF ms[i] \in Range(IndexOf(df))
                    THEN df.rows[CHOOSE r \in 1..Len(df.rows) : df.rows[r].name = ms[i]]
                    ELSE NaNRow(ms[i], Len(df.columns))]]

\* lines 107-108 / 110-111
Select(df, ms) == Reindex(Loc(df, Intersection(IndexOf(df), ms)), ms)

\* reindex raises on an index with duplicate labels
CanReindex(df) == NoDup(IndexOf(df))

\* [f"Y_{col}" for col in df.columns]: the label with the prefix put before it
Prefixed(prefix, df) ==
    [columns |-> [i \in 1..Len(df.columns) |-> <<prefix, df.columns[i]>>],
     rows    |-> df.rows]

CellsOf(df, n) ==
    IF n \in Range(IndexOf(df))
    THEN df.rows[CHOOSE r \in 1..Len(df.rows) : df.rows[r].name = n].cells
    ELSE [c \in 1..Len(df.columns) |-> NaN]

\* variant: pd.concat([b, a], axis=1)
ConcatSwapped(a, b) ==
    LET NotInB(n) == n \notin Range(IndexOf(b))
        names == IndexOf(b) \o SelectSeq(IndexOf(a), NotInB)
    IN  [columns |-> b.columns \o a.columns,
         rows    |-> [i \in 1..Len(names) |->
                        [name |-> names[i],
                         cells |-> CellsOf(b, names[i]) \o CellsOf(a, names[i])]]]

\* pd.concat([a, b], axis=1): columns of a then columns of b, rows aligned on
\* the index labels (outer join: a's labels, then b's labels a lacks)
Concat(a, b) ==
    LET NotInA(n) == n \notin Range(IndexOf(a))
        names == IndexOf(a) \o SelectSeq(IndexOf(b), NotInA)
    IN  [columns |-> a.columns \o b.columns,
         rows    |-> [i \in 1..Len(names) |->
                        [name |-> names[i],
                         cells |-> CellsOf(a, names[i]) \o CellsOf(b, names[i])]]]

\* line 105
Metrics ==
    <<"Revenue", "OperatingProfit", "NetIncome", "OperatingMargin", "PER", "PBR">>

-----------------------------------------------------------------------------
(* The run *)

NoDiag == [kind |-> "none", tag |-> "", hasCode |-> FALSE, by |-> ""]

\* line 33: f"[GetNvrEncparam] ... code={code}"
ExtractionError ==
    [kind |-> "ExtractionError", tag |-> "GetNvrEncparam", hasCode |-> TRUE,
     by |-> "program"]

\* line 74: f"[GetNvrFin] ... code={code}, freq_typ={freq_typ}"
EmptyResponseError ==
    [kind |-> "EmptyResponseError", tag |-> "GetNvrFin", hasCode |-> TRUE,
     by |-> "program"]

\* line 78: f"[GetNvrFin] ... (tables count={len(tables)})"
TableCountError ==
    [kind |-> "TableCountError", tag |-> "GetNvrFin", hasCode |-> FALSE,
     by |-> "program"]

\* line 85: "[GetNvrFin] ... column not found"
MissingKeyColumnError ==
    [kind |-> "MissingKeyColumnError", tag |-> "GetNvrFin", hasCode |-> FALSE,
     by |-> "program"]

\* raised inside requests.get; the traceback names the calling function and
\* the exception shows the request URL, which holds cmp_cd=<code>
TransportError(fn) ==
    [kind |-> "TransportError", tag |-> fn, hasCode |-> TRUE, by |-> "requests"]

\* raised inside pd.read_html when the body holds no table
NoTablesFound ==
    [kind |-> "NoTablesFound", tag |-> "GetNvrFin", hasCode |-> FALSE,
     by |-> "pandas"]

\* raised inside DataFrame.reindex on duplicate index labels
DuplicateLabels ==
    [kind |-> "DuplicateLabels", tag |-> "main", hasCode |-> FALSE,
     by |-> "pandas"]

\* an uncaught exception: the interpreter prints the traceback and exits 1
Raise(d) == pc' = "exit" /\ status' = 1 /\ diag' = d

Goto(l) == pc' = l /\ UNCHANGED <<status, diag>>

PortalRequest(ok) ==
    [url |-> "c1010001", cmp_cd |-> code, freq_typ |-> "", encparam |-> <<>>,
     id |-> <<>>, call |-> freq_typ, ok |-> ok]

\* lines 48-56
DataRequest(ok) ==
    [url |-> "cF1001", cmp_cd |-> code, freq_typ |-> freq_typ,
     encparam |-> encparam, id |-> encid, call |-> freq_typ, ok |-> ok]

(* the inputs of a run *)

Prog == <<"p">>

Args == {<<"7">>, <<" ", "7", "\n">>, <<"9">>}

Argvs == {<<Prog>>} \cup {<<Prog, a>> : a \in Args}
            \cup {<<Prog, a, b>> : a, b \in {<<"7">>}}

RunPages ==
    { <<"KE", "a", "=", "'", "KI", "a", "'">>,
      <<"KI", "a", "a", "'", "KE", "=", "'">>,
      <<"KE", "a", "'">> }

TableOther == [levels |-> << <<"x">> >>, rows |-> << <<"o">> >>]

TableAnnual ==
    [levels |-> << <<KeyCol, "2023">> >>, rows |-> << <<"Revenue", "100">> >>]

TableQuarterly ==
    [levels |-> << <<"grp", "grp">>, <<KeyCol, "2023Q4">> >>,
     rows   |-> << <<"Other", "5">>, <<"OperatingProfit", "10">> >>]

TableNoKey ==
    [levels |-> << <<KeyCol, "grp">>, <<"name", "2023">> >>,
     rows   |-> << <<"Revenue", "100">> >>]

TableDup ==
    [levels |-> << <<"2023", KeyCol>> >>,
     rows   |-> << <<"1", "PER">>, <<"2", "PER">> >>]

RunBodies ==
    { <<>>,
      <<Chunk(" "), Chunk("\n")>>,
      <<Chunk("x")>>,
      <<TableChunk(TableOther)>>,
      <<TableChunk(TableOther), TableChunk(TableNoKey)>>,
      <<TableChunk(TableOther), TableChunk(TableAnnual)>>,
      <<Chunk(" "), TableChunk(TableOther), Chunk("x"), TableChunk(TableQuarterly)>>,
      <<TableChunk(TableOther), TableChunk(TableDup), TableChunk(TableOther)>> }

OldFile == [bom |-> FALSE, table |-> NoDf]

NoFile == [bom |-> FALSE, table |-> [columns |-> <<"absent">>, rows |-> <<>>]]

Idle ==
    /\ code = <<>> /\ freq_typ = "" /\ html = <<>>
    /\ encparam = <<>> /\ encid = <<>> /\ raw_html = <<>> /\ tables = <<>>
    /\ df_all = NoDf /\ df_qtr = NoDf
    /\ df_all_sel = NoDf /\ df_qtr_sel = NoDf /\ df_merged = NoDf
    /\ status = -1 /\ diag = NoDiag /\ stdout = <<>>
    /\ net = <<>> /\ parsed = <<>> /\ writes = 0

Init ==
    /\ pc = "main"
    /\ argv \in Argvs
    /\ metrics = Metrics
    /\ outfile \in {NoFile, OldFile}
    /\ outdir = (outfile # NoFile)
    /\ Idle

\* lines 93-98, and the call of line 101
MainArgs ==
    /\ pc = "main"
    /\ IF Len(argv) # 2
       THEN /\ pc' = "exit" /\ status' = 1 /\ stdout' = <<"usage">>
            /\ UNCHANGED <<code, freq_typ, diag>>
       ELSE /\ code' = Strip(argv[2])
            /\ freq_typ' = "Y"
            /\ Goto("portal_get")
            /\ UNCHANGED stdout
    /\ UNCHANGED <<argv, html, encparam, encid, raw_html, tables, df_all, df_qtr,
                   metrics, df_all_sel, df_qtr_sel, df_merged, outfile, outdir,
                   net, parsed, writes>>

\* variant: the portal GET retried after a transport error
PortalGetRetry ==
    /\ pc = "portal_get"
    /\ \/ /\ net' = Append(net, PortalRequest(FALSE))
          /\ IF Len(net) < 3 THEN Goto("portal_get")
                             ELSE Raise(TransportError("GetNvrEncparam"))
          /\ UNCHANGED html
       \/ /\ \E page \in RunPages : html' = page
          /\ net' = Append(net, PortalRequest(TRUE))
          /\ Goto("extract")
    /\ UNCHANGED <<argv, code, freq_typ, encparam, encid, raw_html, tables,
                   df_all, df_qtr, metrics, df_all_sel, df_qtr_sel, df_merged,
                   outfile, outdir, stdout, parsed, writes>>

\* lines 15-24: one GET of the portal page; a transport error or timeout
\* propagates out of requests.get
PortalGet ==
    /\ pc = "portal_get"
    /\ \/ /\ net' = Append(net, PortalRequest(FALSE))
          /\ Raise(TransportError("GetNvrEncparam"))
          /\ UNCHANGED html
       \/ /\ \E page \in RunPages : html' = page
          /\ net' = Append(net, PortalRequest(TRUE))
          /\ Goto("extract")
    /\ UNCHANGED <<argv, code, freq_typ, encparam, encid, raw_html, tables,
                   df_all, df_qtr, metrics, df_all_sel, df_qtr_sel, df_merged,
                   outfile, outdir, stdout, parsed, writes>>

\* variant: `and` in place of `or`
TokensMissingBoth(m_enc, m_id) == ~m_enc.found /\ ~m_id.found

\* line 32: if not m_enc or not m_id
TokensMissing(m_enc, m_id) == ~m_enc.found \/ ~m_id.found

\* lines 26-35, and line 45
Extract ==
    /\ pc = "extract"
    /\ LET m_enc == SearchEnc(Expand(html))
           m_id  == SearchId(Expand(html))
       IN  IF TokensMissing(m_enc, m_id)
           THEN /\ Raise(ExtractionError)
                /\ UNCHANGED <<encparam, encid>>
           ELSE /\ encparam' = m_enc.group
                /\ encid' = m_id.group
                /\ Goto("data_get")
    /\ UNCHANGED <<argv, code, freq_typ, html, raw_html, tables, df_all, df_qtr,
                   metrics, df_all_sel, df_qtr_sel, df_merged, outfile, outdir,
                   stdout, net, parsed, writes>>

\* lines 47-71: one GET of the data endpoint
DataGet ==
    /\ pc = "data_get"
    /\ \/ /\ net' = Append(net, DataRequest(FALSE))
          /\ Raise(TransportError("GetNvrFin"))
          /\ UNCHANGED raw_html
       \/ /\ \E body \in RunBodies : raw_html' = body
          /\ net' = Append(net, DataRequest(TRUE))
          /\ Goto("empty_check")
    /\ UNCHANGED <<argv, code, freq_typ, html, encparam, encid, tables, df_all,
                   df_qtr, metrics, df_all_sel, df_qtr_sel, df_merged, outfile,
                   outdir, stdout, parsed, writes>>

\* lines 73-74
EmptyCheck ==
    /\ pc = "empty_check"
    /\ IF IsBlank(raw_html) THEN Raise(EmptyResponseError) ELSE Goto("read_html")
    /\ UNCHANGED <<argv, code, freq_typ, html, encparam, encid, raw_html, tables,
                   df_all, df_qtr, metrics, df_all_sel, df_qtr_sel, df_merged,
                   outfile, outdir, stdout, net, parsed, writes>>

\* line 76: pd.read_html returns a non-empty list or raises
ReadHtml ==
    /\ pc = "read_html"
    /\ parsed' = Append(parsed, raw_html)
    /\ IF TablesOf(raw_html) = <<>>
       THEN Raise(NoTablesFound) /\ UNCHANGED tables
       ELSE tables' = TablesOf(raw_html) /\ Goto("count_check")
    /\ UNCHANGED <<argv, code, freq_typ, html, encparam, encid, raw_html,
                   df_all, df_qtr, metrics, df_all_sel, df_qtr_sel, df_merged,
                   outfile, outdir, stdout, net, writes>>

\* lines 77-78
CountCheck ==
    /\ pc = "count_check"
    /\ IF Len(tables) < 2 THEN Raise(TableCountError) ELSE Goto("normalize")
    /\ UNCHANGED <<argv, code, freq_typ, html, encparam, encid, raw_html, tables,
                   df_all, df_qtr, metrics, df_all_sel, df_qtr_sel, df_merged,
                   outfile, outdir, stdout, net, parsed, writes>>

\* variant: the annual frame saved to the output file as soon as it is fetched
ReturnSavingEarly(df) ==
    IF freq_typ = "Y"
    THEN /\ df_all' = df
         /\ freq_typ' = "Q"
         /\ Goto("portal_get")
         /\ outfile' = [bom |-> TRUE, table |-> df]
         /\ writes' = writes + 1
         /\ UNCHANGED df_qtr
    ELSE /\ df_qtr' = df
         /\ Goto("select")
         /\ UNCHANGED <<df_all, freq_typ, outfile, writes>>

\* where GetNvrFin returns to: line 102 after the "Y" call, line 104 after "Q"
Return(df) ==
    IF freq_typ = "Y"
    THEN /\ df_all' = df
         /\ freq_typ' = "Q"
         /\ Goto("portal_get")
         /\ UNCHANGED <<df_qtr, outfile, writes>>
    ELSE /\ df_qtr' = df
         /\ Goto("select")
         /\ UNCHANGED <<df_all, freq_typ, outfile, writes>>

\* lines 80-88
Normalize ==
    /\ pc = "normalize"
    /\ LET fs == tables[2]
           columns == Collapse(fs.levels)
       IN  IF ~HasKey(columns)
           THEN /\ Raise(MissingKeyColumnError)
                /\ UNCHANGED <<df_all, df_qtr, freq_typ, outfile, writes>>
           ELSE Return(SetIndex(Labels(columns), fs.rows))
    /\ UNCHANGED <<argv, code, html, encparam, encid, raw_html, tables, metrics,
                   df_all_sel, df_qtr_sel, df_merged, outdir, stdout, net, parsed>>

\* lines 105-111
SelectStep ==
    /\ pc = "select"
    /\ LET sel_all == Loc(df_all, Intersection(IndexOf(df_all), metrics))
           sel_qtr == Loc(df_qtr, Intersection(IndexOf(df_qtr), metrics))
       IN  IF ~CanReindex(sel_all) \/ ~CanReindex(sel_qtr)
           THEN Raise(DuplicateLabels) /\ UNCHANGED <<df_all_sel, df_qtr_sel>>
           ELSE /\ df_all_sel' = Select(df_all, metrics)
                /\ df_qtr_sel' = Select(df_qtr, metrics)
                /\ Goto("prefix")
    /\ UNCHANGED <<argv, code, freq_typ, html, encparam, encid, raw_html, tables,
                   df_all, df_qtr, metrics, df_merged, outfile, outdir, stdout,
                   net, parsed, writes>>

\* lines 114-115
PrefixStep ==
    /\ pc = "prefix"
    /\ df_all_sel' = Prefixed("Y_", df_all_sel)
    /\ df_qtr_sel' = Prefixed("Q_", df_qtr_sel)
    /\ Goto("concat")
    /\ UNCHANGED <<argv, code, freq_typ, html, encparam, encid, raw_html, tables,
                   df_all, df_qtr, metrics, df_merged, outfile, outdir, stdout,
                   net, parsed, writes>>

\* line 118
ConcatStep ==
    /\ pc = "concat"
    /\ df_merged' = Concat(df_all_sel, df_qtr_sel)
    /\ Goto("makedirs")
    /\ UNCHANGED <<argv, code, freq_typ, html, encparam, encid, raw_html, tables,
                   df_all, df_qtr, metrics, df_all_sel, df_qtr_sel, outfile,
                   outdir, stdout, net, parsed, writes>>

\* lines 121-122
Makedirs ==
    /\ pc = "makedirs"
    /\ outdir' = TRUE
    /\ Goto("to_csv")
    /\ UNCHANGED <<argv, code, freq_typ, html, encparam, encid, raw_html, tables,
                   df_all, df_qtr, metrics, df_all_sel, df_qtr_sel, df_merged,
                   outfile, stdout, net, parsed, writes>>

\* lines 125-126
ToCsv ==
    /\ pc = "to_csv"
    /\ outfile' = [bom |-> TRUE, table |-> df_merged]
    /\ writes' = writes + 1
    /\ Goto("print")
    /\ UNCHANGED <<argv, code, freq_typ, html, encparam, encid, raw_html, tables,
                   df_all, df_qtr, metrics, df_all_sel, df_qtr_sel, df_merged,
                   outdir, stdout, net, parsed>>

\* line 128, and the normal end of the process
PrintDone ==
    /\ pc = "print"
    /\ stdout' = <<"saved", code>>
    /\ pc' = "exit" /\ status' = 0 /\ UNCHANGED diag
    /\ UNCHANGED <<argv, code, freq_typ, html, encparam, encid, raw_html, tables,
                   df_all, df_qtr, metrics, df_all_sel, df_qtr_sel, df_merged,
                   outfile, outdir, net, parsed, writes>>

Next ==
    \/ MainArgs
    \/ PortalGet
    \/ Extract
    \/ DataGet
    \/ EmptyCheck
    \/ ReadHtml
    \/ CountCheck
    \/ Normalize
    \/ SelectStep
    \/ PrefixStep
    \/ ConcatStep
    \/ Makedirs
    \/ ToCsv
    \/ PrintDone

Spec == Init /\ [][Next]_vars

-----------------------------------------------------------------------------
(* GetNvrEncparam on every page of at most MaxPageLen tokens *)

ACode == <<"7">>

InitExtract ==
    /\ pc = "extract"
    /\ argv = <<Prog, ACode>>
    /\ code = ACode
    /\ freq_typ = "Y"
    /\ html \in SeqsUpTo(PageTok, MaxPageLen)
    /\ encparam = <<>> /\ encid = <<>> /\ raw_html = <<>> /\ tables = <<>>
    /\ df_all = NoDf /\ df_qtr = NoDf /\ metrics = Metrics
    /\ df_all_sel = NoDf /\ df_qtr_sel = NoDf /\ df_merged = NoDf
    /\ outfile = NoFile /\ outdir = FALSE
    /\ status = -1 /\ diag = NoDiag /\ stdout = <<>>
    /\ net = <<PortalRequest(TRUE)>> /\ parsed = <<>> /\ writes = 0

NextExtract == Extract

SpecExtract == InitExtract /\ [][NextExtract]_vars

(* The body checks of GetNvrFin on every body of at most MaxBodyLen chunks *)

BodyChunks == {Chunk(" "), Chunk("\n"), Chunk("x"), TableChunk(TableOther)}

InitBody ==
    /\ pc = "empty_check"
    /\ argv = <<Prog, ACode>>
    /\ code = ACode
    /\ freq_typ = "Y"
    /\ html = <<"KE", "a", "'", "KI", "a", "'">>
    /\ encparam = <<"a">> /\ encid = <<"a">>
    /\ raw_html \in SeqsUpTo(BodyChunks, MaxBodyLen)
    /\ tables = <<>>
    /\ df_all = NoDf /\ df_qtr = NoDf /\ metrics = Metrics
    /\ df_all_sel = NoDf /\ df_qtr_sel = NoDf /\ df_merged = NoDf
    /\ outfile = NoFile /\ outdir = FALSE
    /\ status = -1 /\ diag = NoDiag /\ stdout = <<>>
    /\ net = <<PortalRequest(TRUE), DataRequest(TRUE)>>
    /\ parsed = <<>> /\ writes = 0

NextBody == EmptyCheck \/ ReadHtml

SpecBody == InitBody /\ [][NextBody]_vars

(* Lines 80-88 on every second table with a header of one or two levels,   *)
(* at most MaxHdr columns and MaxRows rows, whose innermost header row     *)
(* names the key column at most once                                       *)

HdrLabels == {KeyCol, "2022", "2023"}

RowNames == <<"Revenue", "OperatingProfit", "NetIncome", "PER">>

Grid ==
    << <<"v11", "v12", "v13", "v14">>,
       <<"v21", "v22", "v23", "v24">>,
       <<"v31", "v32", "v33", "v34">>,
       <<"v41", "v42", "v43", "v44">> >>

KeyAtMostOnce(labels) ==
    Cardinality({i \in 1..Len(labels) : labels[i] = KeyCol}) <= 1

Inners == {h \in SeqsUpTo(HdrLabels, MaxHdr) : Len(h) >= 1 /\ KeyAtMostOnce(h)}

Headers ==
    {<<h>> : h \in Inners}
        \cup UNION {{<<o, h>> : o \in [1..Len(h) -> {KeyCol, "grp"}]} : h \in Inners}

RowsFor(inner, n) ==
    [r \in 1..n |-> [c \in 1..Len(inner) |->
        IF inner[c] = KeyCol THEN RowNames[r] ELSE Grid[r][c]]]

NormTables ==
    {[levels |-> lv, rows |-> RowsFor(lv[Len(lv)], n)] : lv \in Headers, n \in 0..MaxRows}

InitNorm ==
    /\ pc = "normalize"
    /\ argv = <<Prog, ACode>>
    /\ code = ACode
    /\ freq_typ \in {"Y", "Q"}
    /\ html = <<"KE", "a", "'", "KI", "a", "'">>
    /\ encparam = <<"a">> /\ encid = <<"a">>
    /\ \E tb \in NormTables :
          /\ raw_html = <<TableChunk(TableOther), TableChunk(tb)>>
          /\ tables = <<TableOther, tb>>
    /\ df_all = (IF freq_typ = "Q"
                 THEN SetIndex(Labels(TableAnnual.levels), TableAnnual.rows)
                 ELSE NoDf)
    /\ df_qtr = NoDf /\ metrics = Metrics
    /\ df_all_sel = NoDf /\ df_qtr_sel = NoDf /\ df_merged = NoDf
    /\ outfile = NoFile /\ outdir = FALSE
    /\ status = -1 /\ diag = NoDiag /\ stdout = <<>>
    /\ net = <<PortalRequest(TRUE), DataRequest(TRUE)>>
    /\ parsed = <<raw_html>> /\ writes = 0

NextNorm == Normalize

SpecNorm == InitNorm /\ [][NextNorm]_vars

(* Lines 104-118 on every pair of keyed frames with unique metric names,   *)
(* at most MaxRows rows and MaxCols columns, and every duplicate-free      *)
(* requested list over MetricUniverse                                      *)

MetricUniverse == {"Revenue", "OperatingProfit", "NetIncome"}

NameUniverse == MetricUniverse \cup {"Other"}

MetricLists ==
    {m \in SeqsUpTo(MetricUniverse, Cardinality(MetricUniverse)) : NoDup(m)}

Periods == <<"2023", "2024", "2025">>

YGrid ==
    << <<"y11", "y12", "y13">>, <<"y21", "y22", "y23">>,
       <<"y31", "y32", "y33">>, <<"y41", "y42", "y43">> >>

QGrid ==
    << <<"q11", "q12", "q13">>, <<"q21", "q22", "q23">>,
       <<"q31", "q32", "q33">>, <<"q41", "q42", "q43">> >>

Frames(grid) ==
    {[columns |-> SubSeq(Periods, 1, n),
      rows    |-> [r \in 1..Len(names) |->
                     [name |-> names[r], cells |-> SubSeq(grid[r], 1, n)]]] :
        names \in {s \in SeqsUpTo(NameUniverse, MaxRows) : NoDup(s)},
        n \in 1..MaxCols}

InitTable ==
    /\ pc = "select"
    /\ argv = <<Prog, ACode>>
    /\ code = ACode
    /\ freq_typ = "Q"
    /\ html = <<>> /\ encparam = <<>> /\ encid = <<>>
    /\ raw_html = <<>> /\ tables = <<>>
    /\ df_all \in Frames(YGrid)
    /\ df_qtr \in Frames(QGrid)
    /\ metrics \in MetricLists
    /\ df_all_sel = NoDf /\ df_qtr_sel = NoDf /\ df_merged = NoDf
    /\ outfile = NoFile /\ outdir = FALSE
    /\ status = -1 /\ diag = NoDiag /\ stdout = <<>>
    /\ net = <<>> /\ parsed = <<>> /\ writes = 0

NextTable == SelectStep \/ PrefixStep \/ ConcatStep

SpecTable == InitTable /\ [][NextTable]_vars

-----------------------------------------------------------------------------
(* The claims *)

PortalCalls == LET IsPortal(r) == r.url = "c1010001" IN SelectSeq(net, IsPortal)

DataCalls == LET IsData(r) == r.url = "cF1001" IN SelectSeq(net, IsData)

\* C1 (as claimed): in one run the portal page is fetched, and the tokens
\* extracted, exactly once and before either data request, and both data
\* requests carry the same (encparam, id) pair.
C1_TokensExtractedOnce ==
    /\ Len(PortalCalls) <= 1
    /\ DataCalls # <<>> => Len(PortalCalls) = 1 /\ net[1].url = "c1010001"
    /\ \A i, j \in 1..Len(DataCalls) :
          /\ DataCalls[i].encparam = DataCalls[j].encparam
          /\ DataCalls[i].id = DataCalls[j].id

\* C2: a run that fails at any stage has ended and has never written the
\* output file; the file is written once, only after both views were fetched,
\* keyed, selected and merged, and it then holds the merged table.
C2_NoPartialOutput ==
    /\ (status = 1 \/ diag # NoDiag) => pc = "exit" /\ writes = 0
    /\ writes = 0 => outfile \in {NoFile, OldFile}
    /\ writes > 0 =>
          /\ writes = 1
          /\ pc \in {"print", "exit"}
          /\ diag = NoDiag
          /\ Len(DataCalls) = 2
          /\ \A i \in 1..2 : DataCalls[i].ok
          /\ DataCalls[1].freq_typ = "Y" /\ DataCalls[2].freq_typ = "Q"
          /\ IndexOf(df_merged) = metrics
          /\ Len(df_merged.columns) = Len(df_all.columns) + Len(df_qtr.columns)
          /\ outfile = [bom |-> TRUE, table |-> df_merged]

\* C2 witness: the annual view was fetched and keyed, the quarterly view
\* failed its key-column check, and nothing was written.
C2_Witness ==
    /\ pc = "exit" /\ status = 1
    /\ diag.kind = "MissingKeyColumnError"
    /\ freq_typ = "Q" /\ df_all # NoDf
    /\ writes = 0 /\ outfile = OldFile

\* C3: after the selection step each selected frame has one row per requested
\* metric, in the requested order; a metric the source holds carries the
\* source row's cells, a metric it lacks carries an empty cell per column.
SelectedFrom(df, sel) ==
    /\ IndexOf(sel) = metrics
    /\ sel.columns = df.columns
    /\ \A i \in 1..Len(metrics) :
          /\ sel.rows[i].name = metrics[i]
          /\ Len(sel.rows[i].cells) = Len(df.columns)
          /\ \A r \in 1..Len(df.rows) :
                df.rows[r].name = metrics[i] => sel.rows[i].cells = df.rows[r].cells
          /\ (\A r \in 1..Len(df.rows) : df.rows[r].name # metrics[i])
                => \A c \in 1..Len(df.columns) : sel.rows[i].cells[c] = NaN

C3_SelectionOrder ==
    pc = "prefix" => SelectedFrom(df_all, df_all_sel) /\ SelectedFrom(df_qtr, df_qtr_sel)

\* C3 witness: metrics [A, B, C] over a source holding B then A.
C3_Witness ==
    /\ pc = "prefix"
    /\ metrics = <<"Revenue", "OperatingProfit", "NetIncome">>
    /\ IndexOf(df_all) = <<"OperatingProfit", "Revenue">>
    /\ df_all_sel.rows[1].cells = df_all.rows[2].cells
    /\ df_all_sel.rows[3].cells[1] = NaN

\* the cells a view contributes to the merged row of metric m
ViewCells(df, m, c) ==
    IF \E r \in 1..Len(df.rows) : df.rows[r].name = m
    THEN df.rows[CHOOSE r \in 1..Len(df.rows) : df.rows[r].name = m].cells[c]
    ELSE NaN

\* C4: the merged table has one row per requested metric, in order; its
\* columns are the annual labels prefixed "Y_" followed by the quarterly
\* labels prefixed "Q_"; a metric only one view holds has empty cells under
\* the other view's columns.
C4_Merge ==
    pc = "makedirs" =>
        LET na == Len(df_all.columns)
            nq == Len(df_qtr.columns)
        IN  /\ IndexOf(df_merged) = metrics
            /\ Len(df_merged.columns) = na + nq
            /\ \A c \in 1..na : df_merged.columns[c] = <<"Y_", df_all.columns[c]>>
            /\ \A c \in 1..nq : df_merged.columns[na + c] = <<"Q_", df_qtr.columns[c]>>
            /\ \A i \in 1..Len(metrics) :
                  /\ Len(df_merged.rows[i].cells) = na + nq
                  /\ \A c \in 1..na :
                        df_merged.rows[i].cells[c] = ViewCells(df_all, metrics[i], c)
                  /\ \A c \in 1..nq :
                        df_merged.rows[i].cells[na + c] = ViewCells(df_qtr, metrics[i], c)

\* C4 witness: metrics [Revenue, OperatingProfit], the annual view holding
\* only Revenue and the quarterly view only OperatingProfit.
C4_Witness ==
    /\ pc = "makedirs"
    /\ metrics = <<"Revenue", "OperatingProfit">>
    /\ IndexOf(df_all) = <<"Revenue">>
    /\ IndexOf(df_qtr) = <<"OperatingProfit">>
    /\ df_merged.rows[1].cells = <<"y11", NaN>>
    /\ df_merged.rows[2].cells = <<NaN, "q11">>

OnlyWhitespace(raw) == \A j \in 1..Len(raw) : raw[j].c \in Whitespace

\* C5: the parser is invoked only on bodies with a non-whitespace character;
\* an empty or whitespace-only body ends the call with the empty-response
\* error and is never parsed.
C5_BlankNeverParsed ==
    /\ \A i \in 1..Len(parsed) : ~OnlyWhitespace(parsed[i])
    /\ (pc # "empty_check" /\ OnlyWhitespace(raw_html)) =>
          /\ pc = "exit" /\ status = 1
          /\ diag.kind = "EmptyResponseError"
          /\ parsed = <<>>
    /\ (pc # "empty_check" /\ ~OnlyWhitespace(raw_html)) =>
          diag.kind # "EmptyResponseError"

\* C5 witness: a non-empty whitespace-only body was rejected.
C5_Witness ==
    /\ pc = "exit"
    /\ diag.kind = "EmptyResponseError"
    /\ Len(raw_html) >= 2
    /\ parsed = <<>>

C7_DiagnosticCarriesCode ==
    diag.kind \in {"TransportError", "ExtractionError", "EmptyResponseError",
                   "TableCountError", "MissingKeyColumnError"} =>
        /\ pc = "exit" /\ status # 0
        /\ diag.tag # ""
        /\ diag.hasCode

\* C8: the extraction fails, with the error that holds the code, exactly when
\* one of the two patterns has no match in the page; otherwise it returns
\* the group of the leftmost match of each pattern, wherever the two lie.
C8_Extraction ==
    pc # "extract" =>
        LET x == Expand(html)
            encPos == {p \in 1..Len(x) : EncMatchAt(x, p)}
            idPos == {p \in 1..Len(x) : IdMatchAt(x, p)}
        IN  IF encPos = {} \/ idPos = {}
            THEN /\ pc = "exit" /\ status = 1
                 /\ diag.kind = "ExtractionError" /\ diag.hasCode
            ELSE /\ pc = "data_get" /\ diag = NoDiag
                 /\ \E p \in encPos, q \in idPos :
                       /\ \A r \in encPos : p <= r
                       /\ \A r \in idPos : q <= r
                       /\ \E e \in (p + 3)..Len(x) :
                             /\ x[e] = "'"
                             /\ \A j \in (p + 3)..(e - 1) : x[j] # "'"
                             /\ encparam = SubSeq(x, p + 2, e - 1)
                       /\ \E e \in (q + 3)..Len(x) :
                             /\ x[e] = "'"
                             /\ \A j \in (q + 2)..(e - 1) : x[j] # "'"
                             /\ encid = SubSeq(x, q + 2, e - 1)

\* C8 witness: both patterns occur, the id before the encparam.
C8_Witness ==
    /\ pc = "data_get"
    /\ html = <<"KI", "a", "'", "KE", "=", "'">>
    /\ encparam = <<"=">>
    /\ encid = <<"a">>

\* C9: when the extraction returns, neither token is empty.
C9_TokensNonEmpty ==
    pc = "data_get" => encparam # <<>> /\ encid # <<>>

\* C9 witness: the shortest capture, a single character right after the
\* opening quote (here a quote itself), was returned.
C9_Witness ==
    /\ pc = "data_get"
    /\ html = <<"KE", "'", "'", "KI", "a", "'">>
    /\ encparam = <<"'">>
    /\ encid = <<"a">>

\* C10: no GET is repeated within a GetNvrFin call, a failed GET is the last
\* GET of the run and ends it in failure, and a GET that fails during the
\* annual call leaves the quarterly call unmade.
C10_NoRetry ==
    /\ \A i \in 1..(Len(net) - 1) : net[i].ok
    /\ \A i, j \in 1..Len(net) :
          i # j => <<net[i].url, net[i].call>> # <<net[j].url, net[j].call>>
    /\ (net # <<>> /\ ~net[Len(net)].ok) =>
          /\ pc = "exit" /\ status = 1
          /\ diag.kind = "TransportError"
          /\ writes = 0
    /\ (\E i \in 1..Len(net) : ~net[i].ok /\ net[i].call = "Y") =>
          \A j \in 1..Len(net) : net[j].call # "Q"

\* C10 witness: the data request of the annual call failed after its portal
\* request succeeded.
C10_Witness ==
    /\ Len(net) = 2
    /\ net[1].ok /\ ~net[2].ok
    /\ net[2].url = "cF1001" /\ net[2].freq_typ = "Y"
    /\ pc = "exit" /\ status = 1

=============================================================================
